---- MODULE Spec2Model ----
(***************************************************************************)
(* The blog backend of src/server.js as a state machine: the users and     *)
(* posts tables of the SQLite store, the requests in flight (one per       *)
(* client), and the response the latest request was answered with.  Where  *)
(* a handler awaits (signup, login, the upload URL), the handler, the      *)
(* store running its statement and the resumption after an awaited call    *)
(* are actions of their own.  The server is checked by component: SpecAuth, *)
(* SpecPosts and SpecUpload take the routes of one component each,         *)
(* SpecModerate the approve and reject calls in flight together, and       *)
(* SpecIntake one client's requests to every route that validates a body.  *)
(***************************************************************************)
EXTENDS Integers, Sequences, FiniteSets, TLC

VARIABLES users, posts, postSeq, now, pc, req, last, uncaught, crashed

vars == <<users, posts, postSeq, now, pc, req, last, uncaught, crashed>>

(* ------------------------------ bounds --------------------------------- *)
MaxUsers == 2
MaxPostSeq == 2
MaxTime == 1

Clients == {"c1", "c2"}

(* ------------------------- request body values ------------------------- *)
\* A field the JSON body does not carry (undefined after destructuring).
Absent == "<absent>"
\* A JSON number in the place of a string; truthy, and not a string.
NumVal == "<number>"

\* JavaScript's !v for the values above.
Falsy(v) == v \in {Absent, ""}

IsString(v) == v \notin {Absent, NumVal}

Emails == {"a@x", "b@x"}
Passwords == {"pw1", "pw2"}
Salts == {"s1", "s2"}

\* The bodies with every field present, and one body for each field missing.
\* Users register with "pw1"; "pw2" is the wrong password of a login.
SignupBodies ==
    [fullName : {"Ann"}, email : Emails, password : {"pw1", NumVal}]
        \cup {[fullName |-> Absent, email |-> "a@x", password |-> "pw1"],
              [fullName |-> "Ann", email |-> "", password |-> "pw1"],
              [fullName |-> "Ann", email |-> "a@x", password |-> Absent]}

LoginBodies ==
    [email : Emails, password : Passwords \cup {NumVal}]
        \cup {[email |-> Absent, password |-> "pw1"],
              [email |-> "a@x", password |-> ""]}

FullPost ==
    [title |-> "T", content |-> "C", author |-> "Alice", username |-> "alice",
     imageUrl |-> "img", category |-> "tech", status |-> Absent]

\* A complete body, and the bodies that differ from it in one field.
SubmitBodies ==
    {FullPost,
     [FullPost EXCEPT !.title = Absent], [FullPost EXCEPT !.title = ""],
     [FullPost EXCEPT !.content = Absent], [FullPost EXCEPT !.author = Absent],
     [FullPost EXCEPT !.username = Absent],
     [FullPost EXCEPT !.category = Absent], [FullPost EXCEPT !.category = ""],
     [FullPost EXCEPT !.status = "approved"]}

\* The ids a client may name: every id the store can assign, and one it cannot.
PostIds == 1..(MaxPostSeq + 1)

Null == "<null>"

NoReq == [op |-> "none"]

(* ------------------------------ responses ------------------------------ *)
\* res.status(code).json({ message })
Json(code, message) == [code |-> code, message |-> message]

(* ------------------------------ bcrypt --------------------------------- *)
\* bcrypt.hash(password, 10): a salted hash of the password.
Hash(password, salt) == [alg |-> "bcrypt", rounds |-> 10, salt |-> salt, of |-> password]

\* bcrypt.compare(password, hash) for a string password.
Compare(password, hash) == hash.of = password

\* bcrypt.hash and bcrypt.compare reject when the data is not a string.
BcryptRejects(password) == ~IsString(password)

(* ------------------------------ the store ------------------------------ *)
\* SELECT * FROM users WHERE email = ?  (the ids of the matching rows)
UsersByEmail(email) == {i \in 1..Len(users) : users[i].email = email}

\* users.email declared without UNIQUE.
NoUniqueViolation(email) == FALSE

\* The UNIQUE constraint of users.email.
UniqueViolation(email) == UsersByEmail(email) # {}

\* The row INSERT INTO users makes; AUTOINCREMENT gives the next id.
NewUser(body, hashed) ==
    [id |-> Len(users) + 1, fullName |-> body.fullName, email |-> body.email,
     password |-> hashed]

\* The status taken from the request body when it carries one.
NewPostStatusFromBody(body) == IF body.status = Absent THEN "pending" ELSE body.status

\* The INSERT naming no status for a column that has no default.
NewPostStatusUnset(body) == Null

\* The row INSERT INTO posts makes: status is the literal 'pending'.
NewPostStatus(body) == "pending"

NewPost(body, id, t) ==
    [id |-> id, title |-> body.title, content |-> body.content,
     author |-> body.author, username |-> body.username,
     imageUrl |-> IF Falsy(body.imageUrl) THEN Null ELSE body.imageUrl,
     category |-> body.category, status |-> NewPostStatus(body), createdAt |-> t]

\* WHERE id = ?
Matching(id) == {i \in DOMAIN posts : i = id}

\* The UPDATE without its WHERE clause.
UpdateStatusAll(id, status) == [i \in DOMAIN posts |-> [posts[i] EXCEPT !.status = status]]

\* The UPDATE restricted to rows still pending.
UpdateStatusIfPending(id, status) ==
    [i \in DOMAIN posts |-> IF i = id /\ posts[i].status = "pending"
                            THEN [posts[i] EXCEPT !.status = status]
                            ELSE posts[i]]

\* INSERT OR REPLACE INTO posts (id, status) in the place of the UPDATE: the
\* row is made anew, its other columns null or at their defaults.
UpdateStatusReplace(id, status) ==
    [i \in DOMAIN posts |->
        IF i \in Matching(id)
        THEN [id |-> i, title |-> Null, content |-> Null, author |-> Null,
              username |-> Null, imageUrl |-> Null, category |-> "uncategorized",
              status |-> status, createdAt |-> now]
        ELSE posts[i]]

\* UPDATE posts SET status = ? WHERE id = ?
UpdateStatus(id, status) ==
    [i \in DOMAIN posts |-> IF i \in Matching(id)
                            THEN [posts[i] EXCEPT !.status = status]
                            ELSE posts[i]]

\* The DELETE without its WHERE clause.
DeleteRowsAll(id) == [i \in {} |-> posts[i]]

\* DELETE FROM posts WHERE id = ?
DeleteRows(id) == [i \in DOMAIN posts \ Matching(id) |-> posts[i]]

\* The status of row id as a statement finds it.
StatusOf(id) == IF id \in DOMAIN posts THEN posts[id].status ELSE "none"

\* WHERE status = ?
WithStatus(status) == {i \in DOMAIN posts : posts[i].status = status}

\* The rows `ids` with no ORDER BY: in every order.
OrderingsUnordered(ids) ==
    {s \in [1..Cardinality(ids) -> ids] : \A i, j \in DOMAIN s : i # j => s[i] # s[j]}

\* ORDER BY createdAt DESC over the rows `ids`: every order of the rows that
\* is descending in createdAt (rows of equal createdAt come in any order).
Orderings(ids) ==
    {s \in [1..Cardinality(ids) -> ids] :
        /\ \A i, j \in DOMAIN s : i # j => s[i] # s[j]
        /\ \A i, j \in DOMAIN s : i < j => posts[s[i]].createdAt >= posts[s[j]].createdAt}

Rows(s) == [i \in DOMAIN s |-> posts[s[i]]]

(* ------------------------------ the state ------------------------------ *)
\* users, posts : the two tables (posts by id); postSeq : the AUTOINCREMENT
\* counter of posts; now : the clock; pc, req : each client's request in
\* flight and where its handling stands; last : the request answered most
\* recently, with its response (id : the row it named or made; fault : a
\* collaborator failed; was : what its statement found in the store);
\* uncaught : a promise rejection no handler caught; crashed : the process
\* ended on it.

Init ==
    /\ users = <<>>
    /\ posts = <<>>
    /\ postSeq = 0
    /\ now = 0
    /\ pc = [c \in Clients |-> "idle"]
    /\ req = [c \in Clients |-> NoReq]
    /\ last = [op |-> "none", req |-> NoReq, id |-> 0, code |-> 0, body |-> [code |-> 0],
               fault |-> FALSE, was |-> "n/a"]
    /\ uncaught = FALSE
    /\ crashed = FALSE

\* The response to request r leaves.
Answer(r, id, resp, fault, was) ==
    last' = [op |-> r.op, req |-> r, id |-> id, code |-> resp.code,
             body |-> resp, fault |-> fault, was |-> was]

\* Client c's request in flight is answered.
Respond(c, r, id, resp, fault, was) ==
    /\ Answer(r, id, resp, fault, was)
    /\ pc' = [pc EXCEPT ![c] = "idle"]
    /\ req' = [req EXCEPT ![c] = NoReq]

\* The handler returns with its work handed to a collaborator.
Await(c, r, phase) ==
    /\ pc' = [pc EXCEPT ![c] = phase]
    /\ req' = [req EXCEPT ![c] = r]
    /\ UNCHANGED last

\* The process serves requests until an uncaught rejection ends it.
Running == ~crashed

Tick ==
    /\ Running
    /\ now < MaxTime
    /\ now' = now + 1
    /\ UNCHANGED <<users, posts, postSeq, pc, req, last, uncaught, crashed>>

(* ------------------------------- signup -------------------------------- *)
\* The validation of signup without its test of the password.
SignupInvalidNoPassword(b) == Falsy(b.fullName) \/ Falsy(b.email)

SignupInvalid(b) == Falsy(b.fullName) \/ Falsy(b.email) \/ Falsy(b.password)

StartSignup(c, b) ==
    /\ Running
    /\ pc[c] = "idle"
    /\ LET r == [op |-> "signup", body |-> b] IN
       IF SignupInvalid(b)
       THEN Respond(c, r, 0, Json(400, "All fields required."), FALSE, "n/a")
       ELSE Await(c, r, "hash")
    /\ UNCHANGED <<users, posts, postSeq, now, uncaught, crashed>>

\* await bcrypt.hash settles: the handler goes on to the insert, or to its catch.
HashDone(c) ==
    /\ Running
    /\ pc[c] = "hash"
    /\ IF BcryptRejects(req[c].body.password)
       THEN Respond(c, req[c], 0, Json(500, "Hashing error."), TRUE, "n/a")
       ELSE \E salt \in Salts :
              Await(c, [op |-> "signup", body |-> req[c].body,
                        hashed |-> Hash(req[c].body.password, salt)], "db")
    /\ UNCHANGED <<users, posts, postSeq, now, uncaught, crashed>>

\* The store runs the INSERT and calls back.
ExecSignup(c, fault) ==
    /\ Running
    /\ pc[c] = "db" /\ req[c].op = "signup"
    /\ LET b == req[c].body IN
       IF fault
       THEN /\ Respond(c, req[c], 0, Json(500, "Error creating user."), TRUE, "n/a")
            /\ UNCHANGED users
       ELSE IF UniqueViolation(b.email)
       THEN /\ Respond(c, req[c], 0, Json(409, "Email already exists."), FALSE, "dup")
            /\ UNCHANGED users
       ELSE /\ Len(users) < MaxUsers
            /\ users' = Append(users, NewUser(b, req[c].hashed))
            /\ Respond(c, req[c], Len(users) + 1,
                       Json(201, "User registered successfully!"), FALSE, "new")
    /\ UNCHANGED <<posts, postSeq, now, uncaught, crashed>>

(* -------------------------------- login -------------------------------- *)
LoginInvalid(b) == Falsy(b.email) \/ Falsy(b.password)

InvalidCredentials == Json(401, "Invalid credentials.")

\* The answer carrying the row as db.get returned it.
LoginOkWholeRow(user) == [code |-> 200, message |-> "Login successful!", user |-> user]

LoginOk(user) ==
    [code |-> 200, message |-> "Login successful!",
     user |-> [id |-> user.id, fullName |-> user.fullName, email |-> user.email]]

StartLogin(c, b) ==
    /\ Running
    /\ pc[c] = "idle"
    /\ LET r == [op |-> "login", body |-> b] IN
       IF LoginInvalid(b)
       THEN Respond(c, r, 0, Json(400, "Email and password required."), FALSE, "n/a")
       ELSE Await(c, r, "db")
    /\ UNCHANGED <<users, posts, postSeq, now, uncaught, crashed>>

\* The store runs the SELECT and calls back; with a row, the callback awaits
\* bcrypt.compare.
ExecLogin(c, fault) ==
    /\ Running
    /\ pc[c] = "db" /\ req[c].op = "login"
    /\ LET found == UsersByEmail(req[c].body.email) IN
       IF fault
       THEN /\ Respond(c, req[c], 0, Json(500, "DB error."), TRUE, "n/a")
       ELSE IF found = {}
       THEN /\ Respond(c, req[c], 0, InvalidCredentials, FALSE, "nouser")
       ELSE /\ \E i \in found :
                 Await(c, [op |-> "login", body |-> req[c].body, user |-> users[i]],
                       "compare")
    /\ UNCHANGED <<users, posts, postSeq, now, uncaught, crashed>>

\* await bcrypt.compare settles.  The callback has no try/catch: a rejection
\* rejects the promise the callback returned, which nothing handles, and the
\* response is never sent; the process warns or ends, by its Node version.
CompareDone(c) ==
    /\ Running
    /\ pc[c] = "compare"
    /\ LET b == req[c].body
           user == req[c].user IN
       IF BcryptRejects(b.password)
       THEN /\ pc' = [pc EXCEPT ![c] = "lost"]
            /\ uncaught' = TRUE
            /\ crashed' \in BOOLEAN
            /\ UNCHANGED <<req, last>>
       ELSE IF Compare(b.password, user.password)
       THEN /\ Respond(c, req[c], user.id, LoginOk(user), FALSE, "match")
            /\ UNCHANGED <<uncaught, crashed>>
       ELSE /\ Respond(c, req[c], 0, InvalidCredentials, FALSE, "wrongpw")
            /\ UNCHANGED <<uncaught, crashed>>
    /\ UNCHANGED <<users, posts, postSeq, now>>

(* -------------------------------- posts -------------------------------- *)
\* A /api/posts handler issues one statement and its callback reads nothing
\* but that statement's result: handler, statement and callback are one step,
\* taken where the store runs the statement.  Concurrent calls are the orders
\* in which the store runs their statements.
\* if (!title || !content || !author || !username || !category)
SubmitInvalid(b) ==
    Falsy(b.title) \/ Falsy(b.content) \/ Falsy(b.author) \/ Falsy(b.username)
        \/ Falsy(b.category)

\* The id of a table whose key is not AUTOINCREMENT: one more than the
\* largest id stored.
NextIdMaxStored ==
    IF DOMAIN posts = {} THEN 1
    ELSE (CHOOSE i \in DOMAIN posts : \A j \in DOMAIN posts : j <= i) + 1

\* id INTEGER PRIMARY KEY AUTOINCREMENT: one more than the largest id the
\* table ever held.
NextId == postSeq + 1

\* POST /api/posts: the handler, then the store running the INSERT (the new
\* id is this.lastID) and calling back.
Submit(b, fault) ==
    /\ Running
    /\ LET r == [op |-> "submit", body |-> b] IN
       IF SubmitInvalid(b)
       THEN /\ Answer(r, 0, Json(400, "Missing fields."), FALSE, "n/a")
            /\ UNCHANGED <<posts, postSeq>>
       ELSE IF fault
       THEN /\ Answer(r, 0, Json(500, "Error creating post."), TRUE, "n/a")
            /\ UNCHANGED <<posts, postSeq>>
       ELSE /\ postSeq < MaxPostSeq
            /\ LET id == NextId IN
               /\ posts' = (id :> NewPost(b, id, now)) @@ posts
               /\ postSeq' = id
               /\ Answer(r, id, Json(201, "Post created successfully."), FALSE, "n/a")
    /\ UNCHANGED <<users, now, pc, req, uncaught, crashed>>

\* Every listing without its WHERE clause.
ListedNoFilter(op) == DOMAIN posts

\* The three listing routes; each names the rows its SELECT keeps.
Listed(op) ==
    CASE op = "listAll" -> DOMAIN posts
      [] op = "listApproved" -> WithStatus("approved")
      [] op = "listPending" -> WithStatus("pending")

List(op, fault) ==
    /\ Running
    /\ LET r == [op |-> op] IN
       IF fault
       THEN Answer(r, 0, Json(500, "Error fetching posts."), TRUE, "n/a")
       ELSE \E s \in Orderings(Listed(op)) :
              Answer(r, 0, [code |-> 200, rows |-> Rows(s)], FALSE, "n/a")
    /\ UNCHANGED <<users, posts, postSeq, now, pc, req, uncaught, crashed>>

\* The row count of the table in the place of the statement's.
ChangesAll(id) == Cardinality(DOMAIN posts)

\* The count of the rows the statement finds pending alone.
ChangesPending(id) == Cardinality({i \in Matching(id) : posts[i].status = "pending"})

\* this.changes of an UPDATE or DELETE ... WHERE id = ?
Changes(id) == Cardinality(Matching(id))

\* The statement of the approve route and its callback's answer.
ApproveRun(id, fault) ==
    LET r == [op |-> "approve", id |-> id] IN
    IF fault
    THEN /\ Answer(r, id, Json(500, "Error approving post."), TRUE, "n/a")
         /\ UNCHANGED posts
    ELSE /\ posts' = UpdateStatus(id, "approved")
         /\ IF Changes(id) = 0
            THEN Answer(r, id, Json(404, "Post not found."), FALSE, StatusOf(id))
            ELSE Answer(r, id, Json(200, "Post approved."), FALSE, StatusOf(id))

\* PUT /api/posts/:id/approve
Approve(id, fault) ==
    /\ Running
    /\ ApproveRun(id, fault)
    /\ UNCHANGED <<users, postSeq, now, pc, req, uncaught, crashed>>

\* The reject route answering 200 with its UPDATE never applied.
RejectRunLost(id, fault) ==
    /\ Answer([op |-> "reject", id |-> id], id,
              IF fault THEN Json(500, "Error rejecting post.")
              ELSE IF Changes(id) = 0 THEN Json(404, "Post not found.")
              ELSE Json(200, "Post rejected."), fault, StatusOf(id))
    /\ UNCHANGED posts

\* The statement of the reject route and its callback's answer.
RejectRun(id, fault) ==
    LET r == [op |-> "reject", id |-> id] IN
    IF fault
    THEN /\ Answer(r, id, Json(500, "Error rejecting post."), TRUE, "n/a")
         /\ UNCHANGED posts
    ELSE /\ posts' = UpdateStatus(id, "rejected")
         /\ IF Changes(id) = 0
            THEN Answer(r, id, Json(404, "Post not found."), FALSE, StatusOf(id))
            ELSE Answer(r, id, Json(200, "Post rejected."), FALSE, StatusOf(id))

\* PUT /api/posts/:id/reject
Reject(id, fault) ==
    /\ Running
    /\ RejectRun(id, fault)
    /\ UNCHANGED <<users, postSeq, now, pc, req, uncaught, crashed>>

\* Moderation calls in flight together.  The handler of client c's call has
\* handed its UPDATE to the store; the store runs the statements it holds one
\* at a time, in any order, each with its callback.
StartModerate(c, op, id) ==
    /\ Running
    /\ pc[c] = "idle"
    /\ Await(c, [op |-> op, id |-> id], "run")
    /\ UNCHANGED <<users, posts, postSeq, now, last, uncaught, crashed>>

ModerateDone(c, fault) ==
    /\ Running
    /\ pc[c] = "run"
    /\ IF req[c].op = "approve"
       THEN ApproveRun(req[c].id, fault)
       ELSE RejectRun(req[c].id, fault)
    /\ pc' = [pc EXCEPT ![c] = "idle"]
    /\ req' = [req EXCEPT ![c] = NoReq]
    /\ UNCHANGED <<users, postSeq, now, uncaught, crashed>>

\* DELETE /api/posts/:id
Delete(id, fault) ==
    /\ Running
    /\ LET r == [op |-> "delete", id |-> id] IN
       IF fault
       THEN /\ Answer(r, id, Json(500, "Error deleting post."), TRUE, "n/a")
            /\ UNCHANGED posts
       ELSE /\ posts' = DeleteRows(id)
            /\ IF Changes(id) = 0
               THEN Answer(r, id, Json(404, "Post not found."), FALSE, StatusOf(id))
               ELSE Answer(r, id, Json(200, "Post deleted."), FALSE, StatusOf(id))
    /\ UNCHANGED <<users, postSeq, now, pc, req, uncaught, crashed>>

\* GET /api/posts/:id: what the callback answers from the row db.get found.
GetResponse(id) ==
    IF Matching(id) = {}
    THEN Json(404, "Post not found.")
    ELSE [code |-> 200, row |-> posts[CHOOSE i \in Matching(id) : TRUE]]

Get(id, fault) ==
    /\ Running
    /\ LET r == [op |-> "get", id |-> id] IN
       IF fault
       THEN Answer(r, id, Json(500, "Error fetching post."), TRUE, "n/a")
       ELSE Answer(r, id, GetResponse(id), FALSE, StatusOf(id))
    /\ UNCHANGED <<users, posts, postSeq, now, pc, req, uncaught, crashed>>

(* ------------------------------ upload URL ----------------------------- *)
URL_EXPIRATION_SECONDS == 300

\* A file name is the sequence of its characters.
Str(chars) == [kind |-> "string", chars |-> chars]
Undefined == [kind |-> "undefined", chars |-> <<>>]
Number == [kind |-> "number", chars |-> <<>>]

FalsyName(v) == v.kind = "undefined" \/ (v.kind = "string" /\ v.chars = <<>>)

FileNames ==
    {Str(<<"a", " ", " ", "b">>), Str(<<"a", "/", "b", ".", "p">>),
     Str(<<" ", "#", "-", "\t", "_">>), Str(<<>>), Undefined, Number}

FileTypes == {"image/png", Absent}

IsSpace(ch) == ch \in {" ", "\t"}

IsKept(ch) == ch \in {"a", "b", "p", "Z", "7", ".", "_", "-"}

RECURSIVE SkipSpaces(_)
SkipSpaces(s) ==
    IF s # <<>> /\ IsSpace(Head(s)) THEN SkipSpaces(Tail(s)) ELSE s

\* .replace(/\s/g, '_'): every whitespace character becomes an underscore.
ReplaceEachSpace(s) == [i \in 1..Len(s) |-> IF IsSpace(s[i]) THEN "_" ELSE s[i]]

\* .replace(/\s+/g, '_')
RECURSIVE ReplaceSpaces(_)
ReplaceSpaces(s) ==
    IF s = <<>> THEN <<>>
    ELSE IF IsSpace(Head(s)) THEN <<"_">> \o ReplaceSpaces(SkipSpaces(Tail(s)))
    ELSE <<Head(s)>> \o ReplaceSpaces(Tail(s))

\* .replace(/[^a-zA-Z0-9._-]/g, '')
StripOthers(s) == SelectSeq(s, IsKept)

Sanitize(chars) == StripOthers(ReplaceSpaces(chars))

\* `posts/${Date.now()}-${sanitized}`
S3Key(chars, ms) == [dir |-> "posts", ms |-> ms, name |-> Sanitize(chars)]

S3Params(key, fileType) ==
    [Bucket |-> "S3_BUCKET_NAME", Key |-> key, Expires |-> URL_EXPIRATION_SECONDS,
     ContentType |-> fileType]

FileUrl(key) == [bucket |-> "S3_BUCKET_NAME", region |-> "AWS_REGION", key |-> key]

S3Invalid(b) == FalsyName(b.fileName) \/ Falsy(b.fileType)

\* A fileName that is no string has no replace method: the handler throws, and
\* the framework's error handler answers 500.
StartS3(c, b) ==
    /\ Running
    /\ pc[c] = "idle"
    /\ LET r == [op |-> "s3", body |-> b] IN
       IF S3Invalid(b)
       THEN Respond(c, r, 0, Json(400, "Missing file info."), FALSE, "n/a")
       ELSE IF b.fileName.kind # "string"
       THEN Respond(c, r, 0, Json(500, "<TypeError>"), TRUE, "n/a")
       ELSE Await(c, [op |-> "s3", body |-> b, key |-> S3Key(b.fileName.chars, now)],
                  "sign")
    /\ UNCHANGED <<users, posts, postSeq, now, uncaught, crashed>>

\* s3.getSignedUrl calls back.
SignDone(c, fault) ==
    /\ Running
    /\ pc[c] = "sign"
    /\ IF fault
       THEN Respond(c, req[c], 0, Json(500, "S3 URL generation failed."), TRUE, "n/a")
       ELSE Respond(c, req[c], 0,
                    [code |-> 200,
                     uploadUrl |-> [signed |-> S3Params(req[c].key, req[c].body.fileType)],
                     fileUrl |-> FileUrl(req[c].key)], FALSE, "n/a")
    /\ UNCHANGED <<users, posts, postSeq, now, uncaught, crashed>>

(* --------------------------- the specification ------------------------- *)
Lists == {"listAll", "listApproved", "listPending"}

NextAuth ==
    \/ \E c \in Clients, b \in SignupBodies : StartSignup(c, b)
    \/ \E c \in Clients : HashDone(c)
    \/ \E c \in Clients, fault \in BOOLEAN : ExecSignup(c, fault)
    \/ \E c \in Clients, b \in LoginBodies : StartLogin(c, b)
    \/ \E c \in Clients, fault \in BOOLEAN : ExecLogin(c, fault)
    \/ \E c \in Clients : CompareDone(c)

NextPosts ==
    \/ Tick
    \/ \E b \in SubmitBodies, fault \in BOOLEAN : Submit(b, fault)
    \/ \E op \in Lists, fault \in BOOLEAN : List(op, fault)
    \/ \E id \in PostIds, fault \in BOOLEAN : Approve(id, fault)
    \/ \E id \in PostIds, fault \in BOOLEAN : Reject(id, fault)
    \/ \E id \in PostIds, fault \in BOOLEAN : Delete(id, fault)
    \/ \E id \in PostIds, fault \in BOOLEAN : Get(id, fault)

NextModerate ==
    \/ \E fault \in BOOLEAN : Submit(FullPost, fault)
    \/ \E c \in Clients, op \in {"approve", "reject"}, id \in PostIds :
         StartModerate(c, op, id)
    \/ \E c \in Clients, fault \in BOOLEAN : ModerateDone(c, fault)

\* One client's requests to every route that validates its body: every body
\* lacking a field, and the complete bodies of one user.
IntakeBodies(bodies) == {b \in bodies : b.email # "b@x"}

NextIntake ==
    \/ \E b \in IntakeBodies(SignupBodies) : StartSignup("c1", b)
    \/ HashDone("c1")
    \/ \E fault \in BOOLEAN : ExecSignup("c1", fault)
    \/ \E b \in IntakeBodies(LoginBodies) : StartLogin("c1", b)
    \/ \E fault \in BOOLEAN : ExecLogin("c1", fault)
    \/ CompareDone("c1")
    \/ \E b \in SubmitBodies, fault \in BOOLEAN : Submit(b, fault)
    \/ \E b \in [fileName : FileNames, fileType : FileTypes] : StartS3("c1", b)
    \/ \E fault \in BOOLEAN : SignDone("c1", fault)

\* The moderation and deletion of posts in a store that holds users too.
NextFrame ==
    \/ StartSignup("c1", [fullName |-> "Ann", email |-> "a@x", password |-> "pw1"])
    \/ HashDone("c1")
    \/ ExecSignup("c1", FALSE)
    \/ Submit(FullPost, FALSE)
    \/ \E id \in PostIds, fault \in BOOLEAN : Approve(id, fault)
    \/ \E id \in PostIds, fault \in BOOLEAN : Reject(id, fault)
    \/ \E id \in PostIds, fault \in BOOLEAN : Delete(id, fault)

NextUpload ==
    \/ Tick
    \/ \E c \in Clients, b \in [fileName : FileNames, fileType : FileTypes] :
         StartS3(c, b)
    \/ \E c \in Clients, fault \in BOOLEAN : SignDone(c, fault)

Next == NextAuth \/ NextPosts \/ NextModerate \/ NextIntake \/ NextFrame \/ NextUpload

Spec == Init /\ [][Next]_vars
SpecAuth == Init /\ [][NextAuth]_vars
SpecPosts == Init /\ [][NextPosts]_vars
SpecModerate == Init /\ [][NextModerate]_vars
SpecIntake == Init /\ [][NextIntake]_vars
SpecFrame == Init /\ [][NextFrame]_vars
SpecUpload == Init /\ [][NextUpload]_vars

(* ------------------------------- claims -------------------------------- *)
Target(op) == IF op = "approve" THEN "approved" ELSE "rejected"

\* C1: the rows GET /api/posts/approved answers with hold no post that is
\* pending or rejected, neither in the row returned nor in the store.
C1_ApprovedListing ==
    (last.op = "listApproved" /\ last.code = 200) =>
        \A k \in DOMAIN last.body.rows :
            LET row == last.body.rows[k] IN
            /\ row.status \notin {"pending", "rejected"}
            /\ row.id \in DOMAIN posts
            /\ posts[row.id].status \notin {"pending", "rejected"}

C1_Witness ==
    /\ last.op = "listApproved" /\ last.code = 200
    /\ Len(last.body.rows) >= 1
    /\ \E i \in DOMAIN posts : posts[i].status \in {"pending", "rejected"}

\* C2: right after a submit answered 201, whatever its body carried, get of
\* the new id answers 200 with a row whose status is pending.
C2_SubmitPending ==
    (last.op = "submit" /\ last.code = 201) =>
        /\ GetResponse(last.id).code = 200
        /\ GetResponse(last.id).row.id = last.id
        /\ GetResponse(last.id).row.status = "pending"

C2_Witness ==
    /\ last.op = "submit" /\ last.code = 201
    /\ last.req.body.status = "approved"
    /\ last.id \in DOMAIN posts

StatusChanged(id) ==
    id \in DOMAIN posts /\ id \in DOMAIN posts' /\ posts'[id].status # posts[id].status

\* C3 as stated: every step that changes a post's status finds it pending.
C3_OnlyFromPending ==
    [][\A id \in PostIds : StatusChanged(id) => posts[id].status = "pending"]_vars

\* C3 as amended: every step that changes a post's status is an approve or a
\* reject of that post answered 200, and the new status is the target of
\* that call (approved or rejected, never pending); the status before it may
\* be any of the three.
C3_OnlyToTarget ==
    [][\A id \in PostIds : StatusChanged(id) =>
          /\ last'.op \in {"approve", "reject"}
          /\ last'.id = id /\ last'.code = 200
          /\ posts'[id].status = Target(last'.op)
          /\ posts[id].status \in {"pending", "approved", "rejected"}]_vars

C3_Witness ==
    /\ last.op = "reject" /\ last.code = 200 /\ last.was = "approved"
    /\ posts[last.id].status = "rejected"

\* C4: approve of an existing id answers 200, and a reject of the same id
\* that follows it answers 200 and leaves the post rejected.
C4_ApproveThenReject ==
    [][/\ \A id \in PostIds :
            (Approve(id, FALSE) /\ id \in DOMAIN posts) =>
                (last'.code = 200 /\ posts'[id].status = "approved")
       /\ (last.op = "approve" /\ last.code = 200 /\ Reject(last.id, FALSE)) =>
                /\ last'.op = "reject" /\ last'.code = 200
                /\ last.id \in DOMAIN posts'
                /\ posts'[last.id].status = "rejected"]_vars

C4_Witness ==
    /\ last.op = "reject" /\ last.code = 200 /\ last.was = "approved"
    /\ last.id \in DOMAIN posts /\ posts[last.id].status = "rejected"

\* C5: delete of an id with no post answers 404 and removes nothing; delete
\* of an existing post, whatever its status, answers 200 and removes it; a
\* get of that id that follows answers 404.
C5_Delete ==
    [][/\ \A id \in PostIds :
            (Delete(id, FALSE) /\ id \notin DOMAIN posts) =>
                (last'.code = 404 /\ posts' = posts)
       /\ \A id \in PostIds :
            (Delete(id, FALSE) /\ id \in DOMAIN posts) =>
                (last'.code = 200 /\ id \notin DOMAIN posts')
       /\ (last.op = "delete" /\ last.code = 200 /\ Get(last.id, FALSE)) =>
                last'.code = 404]_vars

C5_Witness ==
    /\ last.op = "get" /\ last.code = 404
    /\ last.id \in 1..postSeq /\ last.id \notin DOMAIN posts
    /\ posts # <<>>

\* C6: a register whose email already belongs to a stored user, its hash
\* computed and its INSERT run by the store, is answered 409; it adds no row
\* and leaves every stored user as it was.  A register with such an email
\* changes the users table in no step, whatever fails.
C6_DuplicateEmail ==
    [][\A c \in Clients :
          /\ (ExecSignup(c, FALSE) /\ UsersByEmail(req[c].body.email) # {}) =>
                (last'.code = 409 /\ users' = users)
          /\ ((HashDone(c) \/ ExecSignup(c, TRUE) \/ ExecSignup(c, FALSE))
                  /\ UsersByEmail(req[c].body.email) # {}) => users' = users]_vars

C6_Witness ==
    /\ last.op = "signup" /\ last.code = 409 /\ last.was = "dup"
    /\ \E i \in 1..Len(users) :
          /\ users[i].email = last.req.body.email
          /\ users[i].password # last.req.hashed

\* C7 as stated: a login whose email matches no user and a login whose email
\* matches a user but whose password is wrong get the same answer, 401 with
\* the message "Invalid credentials.": none of them is answered otherwise,
\* and none is left without an answer.
C7_SameAnswer ==
    /\ (last.op = "login" /\ last.was \in {"nouser", "wrongpw"}) =>
            last.body = InvalidCredentials
    /\ \A c \in Clients :
            (req[c].op = "login" /\ pc[c] = "lost") =>
                Compare(req[c].body.password, req[c].user.password)

\* The part of C7 the code keeps: the two cases answer alike whenever the
\* wrong password is a string.
C7_SameAnswerForStrings ==
    (last.op = "login" /\ last.was \in {"nouser", "wrongpw"}) =>
        last.body = InvalidCredentials

\* C8 as stated: a submit with title, content, author and username present
\* and category absent is answered 201 and stores the post with category
\* "uncategorized"; 400 is answered only when one of the four is missing.
C8_CategoryDefault ==
    (last.op = "submit" /\ ~last.fault) =>
        LET b == last.req.body
            four == ~Falsy(b.title) /\ ~Falsy(b.content) /\ ~Falsy(b.author)
                        /\ ~Falsy(b.username) IN
        /\ (four /\ b.category = Absent) =>
                /\ last.code = 201
                /\ last.id \in DOMAIN posts
                /\ posts[last.id].category = "uncategorized"
        /\ last.code = 400 => ~four

\* The codes section 6 lists for each route.
RouteCodes(op) ==
    CASE op = "signup" -> {201, 400, 409, 500}
      [] op = "login" -> {200, 400, 401, 500}
      [] op = "submit" -> {201, 400, 500}
      [] op \in Lists -> {200, 500}
      [] op \in {"approve", "reject", "delete", "get"} -> {200, 404, 500}
      [] op = "s3" -> {200, 400, 500}
      [] OTHER -> {0}

\* C9 as stated: every failure while a request is handled is answered with a
\* code its route lists, 500 when a collaborator failed; no request is left
\* unanswered and no error escapes uncaught.
C9_AllErrorsCaught ==
    /\ last.code \in RouteCodes(last.op)
    /\ last.fault => last.code = 500
    /\ ~uncaught
    /\ \A c \in Clients : pc[c] # "lost"

\* C10: approve and reject of an id with no post answer 404 and change no
\* post.
C10_ModerateMissing ==
    [][\A id \in PostIds :
          ((Approve(id, FALSE) \/ Reject(id, FALSE)) /\ id \notin DOMAIN posts) =>
              (last'.code = 404 /\ posts' = posts)]_vars

C10_Witness ==
    /\ last.op \in {"approve", "reject"} /\ last.code = 404 /\ last.was = "none"
    /\ \E i \in DOMAIN posts : posts[i].status = "pending"

\* C11: approve of a post already approved, and reject of a post already
\* rejected, answer 200 (not 404) and leave every post as it was.
C11_Idempotent ==
    [][\A id \in PostIds :
          /\ (Approve(id, FALSE) /\ StatusOf(id) = "approved") =>
                (last'.code = 200 /\ posts' = posts)
          /\ (Reject(id, FALSE) /\ StatusOf(id) = "rejected") =>
                (last'.code = 200 /\ posts' = posts)]_vars

C11_Witness ==
    /\ last.op \in {"approve", "reject"} /\ last.code = 200
    /\ last.was = Target(last.op)
    /\ posts[last.id].status = Target(last.op)

\* C12: with approve and reject calls on one id in flight together, every
\* call whose statement finds the post is answered 200 and leaves the post
\* with that call's target status; a post's status changes in no other step,
\* so it is the target of the write applied last, approved or rejected.
C12_ConcurrentModeration ==
    [][/\ \A c \in Clients :
            (ModerateDone(c, FALSE) /\ req[c].id \in DOMAIN posts) =>
                /\ last'.code = 200
                /\ posts'[req[c].id].status = Target(req[c].op)
                /\ posts'[req[c].id].status \in {"approved", "rejected"}
       /\ \A id \in PostIds : StatusChanged(id) =>
                /\ last'.op \in {"approve", "reject"} /\ last'.id = id
                /\ posts'[id].status = Target(last'.op)]_vars

C12_Witness ==
    /\ last.op = "reject" /\ last.code = 200 /\ last.was = "approved"
    /\ posts[last.id].status = "rejected"
    /\ \E c \in Clients :
          pc[c] = "run" /\ req[c].op = "approve" /\ req[c].id = last.id

\* C13: the rows GET /api/posts answers with are the stored posts, each
\* exactly once and as stored, and no other row; they come in descending
\* createdAt, and so do the rows of the two listings by status.
C13_ListAll ==
    (last.op \in Lists /\ last.code = 200) =>
        LET rows == last.body.rows IN
        /\ \A i, j \in DOMAIN rows : i < j => rows[i].createdAt >= rows[j].createdAt
        /\ last.op = "listAll" =>
              /\ {rows[k].id : k \in DOMAIN rows} = DOMAIN posts
              /\ Len(rows) = Cardinality(DOMAIN posts)
              /\ \A k \in DOMAIN rows : rows[k] = posts[rows[k].id]

C13_Witness ==
    /\ last.op = "listAll" /\ last.code = 200
    /\ Len(last.body.rows) = 2
    /\ last.body.rows[1].createdAt > last.body.rows[2].createdAt
    /\ last.body.rows[1].status # last.body.rows[2].status

\* The rows a listing answered with hold every stored post of its status.
ListsEvery(op, status) ==
    (last.op = op /\ last.code = 200) =>
        \A i \in DOMAIN posts : posts[i].status = status =>
            \E k \in DOMAIN last.body.rows :
                last.body.rows[k].id = i /\ last.body.rows[k].status = status

\* Right after an approve answered 200, the approved listing holds its post.
ApprovedIsListed ==
    (last.op = "approve" /\ last.code = 200) =>
        \A s \in Orderings(Listed("listApproved")) :
            \E k \in DOMAIN s : s[k] = last.id /\ Rows(s)[k].status = "approved"

\* C14 as stated: the approved listing holds every stored approved post and
\* the pending listing every stored pending post; the submit of title "T",
\* content "C", author "Alice" and username "alice" makes a post, and after
\* the approve of its id the approved listing holds it.
C14_SubmitApproveListed ==
    /\ ListsEvery("listApproved", "approved")
    /\ ListsEvery("listPending", "pending")
    /\ ApprovedIsListed
    /\ (last.op = "submit" /\ ~last.fault) =>
            LET b == last.req.body IN
            (b.title = "T" /\ b.content = "C" /\ b.author = "Alice"
                /\ b.username = "alice") =>
                    (last.code = 201 /\ StatusOf(last.id) = "pending")

\* The part of C14 the code keeps: the listings by status are complete, and
\* a post approved is in the approved listing.
C14_ListedByStatus ==
    /\ ListsEvery("listApproved", "approved")
    /\ ListsEvery("listPending", "pending")
    /\ ApprovedIsListed

\* C15 as stated: the answer to a submit that made a post carries the id of
\* that post, and get finds the post under that id.
C15_SubmitReturnsId ==
    (last.op = "submit" /\ last.code = 201) =>
        /\ \E f \in DOMAIN last.body \ {"code", "message"} : last.body[f] = last.id
        /\ GetResponse(last.id).code = 200

\* The part of C15 the code keeps: the post a submit made is stored under
\* the id the INSERT assigned, where get finds it.
C15_StoredUnderNewId ==
    (last.op = "submit" /\ last.code = 201) =>
        /\ last.id = postSeq
        /\ GetResponse(last.id).code = 200
        /\ GetResponse(last.id).row.id = last.id

\* C16: a login answered 200 carries the id, fullName and email, and
\* nothing else, of the stored user whose email is the request's and whose
\* hash the request's password matches; no answer to a login or a signup has
\* a field holding a stored hash or the request's password.
C16_NoSecretInResponse ==
    /\ (last.op = "login" /\ last.code = 200) =>
            \E i \in 1..Len(users) :
                /\ users[i].email = last.req.body.email
                /\ Compare(last.req.body.password, users[i].password)
                /\ last.body.user = [id |-> users[i].id, fullName |-> users[i].fullName,
                                     email |-> users[i].email]
    /\ (last.op \in {"login", "signup"}) =>
            /\ DOMAIN last.body \subseteq {"code", "message", "user"}
            /\ last.body.message # last.req.body.password
            /\ "user" \in DOMAIN last.body =>
                  /\ DOMAIN last.body.user = {"id", "fullName", "email"}
                  /\ last.body.user.fullName # last.req.body.password
                  /\ last.body.user.email # last.req.body.password

C16_Witness ==
    /\ last.op = "login" /\ last.code = 200
    /\ Len(users) = 2 /\ last.body.user.id = 2
    /\ users[2].password.of = last.req.body.password

\* A step that uses no collaborator: no row of either table is inserted or
\* changed, and no request is handed to bcrypt, the store or S3.
Untouched ==
    /\ users' = users /\ posts' = posts /\ postSeq' = postSeq
    /\ pc' = pc /\ req' = req

\* C17: a signup, login, submit or upload-URL request lacking a required
\* field is answered 400 in the step that receives it, and that step uses no
\* collaborator.
C17_ValidationFirst ==
    [][\A c \in Clients :
          /\ \A b \in SignupBodies :
                ((Falsy(b.fullName) \/ Falsy(b.email) \/ Falsy(b.password))
                    /\ StartSignup(c, b)) => (last'.code = 400 /\ Untouched)
          /\ \A b \in LoginBodies :
                ((Falsy(b.email) \/ Falsy(b.password)) /\ StartLogin(c, b)) =>
                    (last'.code = 400 /\ Untouched)
          /\ \A b \in SubmitBodies, fault \in BOOLEAN :
                ((Falsy(b.title) \/ Falsy(b.content) \/ Falsy(b.author)
                        \/ Falsy(b.username))
                    /\ Submit(b, fault)) => (last'.code = 400 /\ Untouched)
          /\ \A b \in [fileName : FileNames, fileType : FileTypes] :
                ((FalsyName(b.fileName) \/ Falsy(b.fileType)) /\ StartS3(c, b)) =>
                    (last'.code = 400 /\ Untouched)]_vars

C17_Witness ==
    /\ last.op \in {"signup", "login", "submit", "s3"} /\ last.code = 400
    /\ users # <<>> /\ posts # <<>>
    /\ \A c \in Clients : pc[c] = "idle"

NonEmpty(x) == x # ""

\* The sanitized name as the claim states it, character by character: the
\* first character of each run of whitespace gives an underscore and the rest
\* of the run nothing; any other character stays if it is a letter, a digit,
\* a dot, an underscore or a hyphen, and gives nothing otherwise.
SanitizedAsStated(chars) ==
    SelectSeq([i \in 1..Len(chars) |->
                  IF IsSpace(chars[i])
                  THEN IF i > 1 /\ IsSpace(chars[i - 1]) THEN "" ELSE "_"
                  ELSE IF IsKept(chars[i]) THEN chars[i] ELSE ""],
              NonEmpty)

\* C18: for a non-empty fileName (with a fileType), the key the upload URL is
\* requested for is "posts/", the clock's milliseconds at the request, "-"
\* and the sanitized name; the fileUrl answered names that same key.
C18_StorageKey ==
    [][\A c \in Clients :
          /\ \A b \in [fileName : FileNames, fileType : FileTypes] :
                (b.fileName.kind = "string" /\ b.fileName.chars # <<>>
                    /\ ~Falsy(b.fileType) /\ StartS3(c, b)) =>
                        /\ pc'[c] = "sign"
                        /\ req'[c].key = [dir |-> "posts", ms |-> now,
                                          name |-> SanitizedAsStated(b.fileName.chars)]
          /\ SignDone(c, FALSE) =>
                /\ last'.code = 200
                /\ last'.body.uploadUrl.signed.Key = req[c].key
                /\ last'.body.fileUrl.key = req[c].key]_vars

C18_Witness ==
    /\ last.op = "s3" /\ last.code = 200
    /\ last.req.body.fileName.chars = <<"a", " ", " ", "b">>
    /\ last.body.fileUrl.key.name = <<"a", "_", "b">>
    /\ last.body.fileUrl.key.ms = 1

\* C19: the status of every stored post is pending, approved or rejected.
C19_StatusDomain ==
    \A i \in DOMAIN posts : posts[i].status \in {"pending", "approved", "rejected"}

C19_Witness ==
    /\ Cardinality(DOMAIN posts) = 2
    /\ {posts[i].status : i \in DOMAIN posts} = {"pending", "rejected"}
    /\ last.op = "submit" /\ last.code = 201 /\ last.req.body.status = "approved"

\* C20: with signups of one email in flight together, each hashed before
\* its INSERT reaches the store, the INSERT the store runs first is answered
\* 201 and adds the one row of that email, every later one is answered 409
\* and adds none; in every state no two user rows share an email.
C20_ConcurrentSignup ==
    [][/\ \A c \in Clients : ExecSignup(c, FALSE) =>
            LET same == {i \in 1..Len(users) : users[i].email = req[c].body.email} IN
            IF same = {}
            THEN /\ last'.code = 201
                 /\ Len(users') = Len(users) + 1
                 /\ users'[Len(users')].email = req[c].body.email
            ELSE /\ last'.code = 409
                 /\ users' = users
       /\ \A i, j \in 1..Len(users') : i # j => users'[i].email # users'[j].email
       /\ Len(users') >= Len(users)]_vars

C20_Witness ==
    /\ last.op = "signup" /\ last.code = 201
    /\ \E c \in Clients :
          /\ pc[c] = "db" /\ req[c].op = "signup"
          /\ req[c].body.email = last.req.body.email
          /\ req[c].hashed # last.req.hashed

\* The ids the table held and holds no more: those of deleted posts.
Deleted == (1..postSeq) \ DOMAIN posts

\* C21: a delete answered 200 leaves its id among the deleted ones; no step
\* stores a post under a deleted id, a submit stores its post under an id
\* the table never held; get, approve, reject and delete of a deleted id
\* answer 404, and no listing holds a row with a deleted id.
C21_IdsNeverReused ==
    [][/\ \A id \in PostIds :
            (id \in DOMAIN posts /\ Delete(id, FALSE)) => id \in Deleted'
       /\ \A id \in Deleted :
            /\ id \in Deleted'
            /\ (Get(id, FALSE) \/ Approve(id, FALSE) \/ Reject(id, FALSE)
                    \/ Delete(id, FALSE)) => last'.code = 404
            /\ (last'.op \in Lists /\ last'.code = 200) =>
                    \A k \in DOMAIN last'.body.rows : last'.body.rows[k].id # id
       /\ \A id \in DOMAIN posts' \ DOMAIN posts :
            id \notin 1..postSeq /\ last'.op = "submit" /\ last'.id = id]_vars

C21_Witness ==
    /\ last.op = "submit" /\ last.code = 201
    /\ Deleted # {}
    /\ \A id \in Deleted : id < last.id
    /\ DOMAIN posts = {last.id}

\* C22: an approve, reject or delete of id, whatever it is answered, leaves
\* every user row and every post other than id as it was and adds no post;
\* an approve or reject of a stored post changes no field of it but status.
C22_Frame ==
    [][\A id \in PostIds :
          /\ (\E fault \in BOOLEAN :
                  Approve(id, fault) \/ Reject(id, fault) \/ Delete(id, fault)) =>
                /\ users' = users
                /\ DOMAIN posts' \subseteq DOMAIN posts
                /\ \A j \in DOMAIN posts \ {id} :
                      j \in DOMAIN posts' /\ posts'[j] = posts[j]
          /\ (id \in DOMAIN posts /\ (Approve(id, FALSE) \/ Reject(id, FALSE))) =>
                /\ id \in DOMAIN posts'
                /\ posts'[id] = [posts[id] EXCEPT !.status = posts'[id].status]
                /\ posts'[id].title = "T" /\ posts'[id].content = "C"
                /\ posts'[id].author = "Alice" /\ posts'[id].username = "alice"
                /\ posts'[id].imageUrl = "img" /\ posts'[id].category = "tech"]_vars

C22_Witness ==
    /\ last.op \in {"approve", "reject"} /\ last.code = 200
    /\ last.was # Target(last.op)
    /\ users # <<>>
    /\ \E j \in DOMAIN posts : j # last.id /\ posts[j].status # posts[last.id].status

====
